---- MODULE Spec2Model ----
(***************************************************************************)
(* A model of the jsbingo board generator and win detector.                *)
(*                                                                         *)
(* The repository holds three near-duplicate variants of the program:      *)
(*   "exclude"  models.ts, first copy  (src/unnamed/part_000:1-143) run by *)
(*              the app with a game mode (src/ts/index.ts:1-39): the free  *)
(*              label is left out of the deck and spliced into the board;  *)
(*   "replace"  models.ts, second copy (src/unnamed/part_000:145-280, the  *)
(*              same code as the bundle src/index.js:10167-10266) run by   *)
(*              the bundle's app (src/index.js:10447-10458): the deck      *)
(*              covers every cell and the free cell's label is replaced;   *)
(*   "items"    the single-file program (src/ts/index.ts:41-245): the deck *)
(*              is kept in Labels.items and the centre square is marked.   *)
(* A behaviour of the model is a run of one of them.                       *)
(***************************************************************************)
EXTENDS Integers, Sequences, FiniteSets, TLC

VARIABLES
    variant,    \* which of the three programs runs
    list,       \* LabelList.list / Labels.list: the label pool
    freeIndex,  \* LabelList.freeIndex: <<>> is null, <<i>> the number i
    items,      \* Labels.items ("items" variant): the dealt deck
    board,      \* game.board / b: the active board, or NoBoard (undefined)
    mode,       \* game.mode ("exclude" app): "config" or "play"
    active,     \* Board.active ("items" variant)
    deck,       \* boardlabels of the last build, before the free cell is
                \* placed; the result of the last call of the shuffle helper
    last        \* the last operation: for a generation its arguments and how
                \* it ended: "built", "undefined" (no board returned), "skipped"
                \* (the handler made no call) or the error thrown; for a pool
                \* operation its argument and the pool it was called on

vars == <<variant, list, freeIndex, items, board, mode, active, deck, last>>

(* ------------------------------ bounds --------------------------------- *)

\* Longest label pool the program is loaded with, and the longest the add
\* action builds.
MaxLabels == 2
\* Longest label pool a build is tried on as a function of its inputs.
MaxPool == 3
\* Largest board size requested besides the default size.
MaxSize == 2
\* Most squares of a board whose flags differ from their values at assembly.
MaxFlipped == 1
\* Math.random() returns k / RandDenom for k in 0 .. RandDenom - 1.
RandDenom == 4
\* The random source repeats with this period.
RandPeriod == 3

(* --------------------------- program constants ------------------------- *)

\* Board.size default, and the size the generate handlers ask for.
DefaultSize == 5

\* The label texts of the pools builds are tried on, and those the add
\* action types in.
LabelTexts == {"A", "B", "C"}
AddTexts == {"A"}
Variants == {"exclude", "replace", "items"}

\* The label a Square gets when its snapshot carries no label.
DefaultLabel == "Default label"
\* A template string made from the value undefined.
UndefinedText == "undefined"
\* The value undefined where a label is expected.
Undefined == "<undefined>"

Null == <<>>
Num(i) == <<i>>
IsNum(x) == x # Null
Val(x) == x[1]

(* ------------------------------ utilities ------------------------------ *)

\* size ** 2
Pow2(x) == x * x

\* Math.ceil(a / b) for a >= 0 and b > 0.
Ceil(a, b) == (a + b - 1) \div b

\* The random source: draw number t (from 0) of the stream rnd.
Streams == [1..RandPeriod -> 0..(RandDenom - 1)]
Draw(rnd, t) == rnd[(t % RandPeriod) + 1]

\* randInt(upper) = Math.floor(Math.random() * upper), on the draw k / RandDenom.
randInt(upper, k) == (k * upper) \div RandDenom

\* [a[i], a[j]] = [a[j], a[i]] on 0-based indices.
Swap(a, i, j) == [a EXCEPT ![i + 1] = a[j + 1], ![j + 1] = a[i + 1]]

RECURSIVE FlatMap(_, _, _)
\* Concatenation of F[k] for k = from .. to.
FlatMap(F, from, to) ==
    IF from > to THEN <<>> ELSE F[from] \o FlatMap(F, from + 1, to)

\* arr.slice(0, n)
Slice(arr, n) == SubSeq(arr, 1, IF n < Len(arr) THEN n ELSE Len(arr))

\* arr.filter((_, i) => i !== idx), idx a number or null
RECURSIVE FilterOut(_, _)
FilterOut(arr, idx) ==
    IF arr = <<>> THEN <<>>
    ELSE LET n == Len(arr)
             front == FilterOut(SubSeq(arr, 1, n - 1), idx)
         IN  IF IsNum(idx) /\ Val(idx) = n - 1 THEN front ELSE Append(front, arr[n])

RECURSIVE ShuffleLoop(_, _, _, _)
\* The loop of shuffleArray from index i down to 1, drawing from draw t on.
ShuffleLoop(a, i, rnd, t) ==
    IF i > 0
    THEN ShuffleLoop(Swap(a, i, randInt(i + 1, Draw(rnd, t))), i - 1, rnd, t + 1)
    ELSE a

\* shuffleArray(arr): a Fisher-Yates shuffle of a copy of arr.
shuffleArray(arr, rnd, t) == ShuffleLoop(arr, Len(arr) - 1, rnd, t)

\* The number of draws one shuffleArray(arr) takes.
ShuffleDraws(arr) == IF Len(arr) > 1 THEN Len(arr) - 1 ELSE 0

\* shuffle(arr) of the "items" variant: the return sits inside the loop, so
\* one swap is made; with fewer than two entries the loop body never runs
\* and the result is undefined (here <<Undefined>>, what flat() keeps of it).
shuffle(arr, rnd, t) ==
    IF Len(arr) - 1 > 0
    THEN Swap(arr, Len(arr) - 1, randInt(Len(arr), Draw(rnd, t)))
    ELSE <<Undefined>>

(* ------------------------------ label pool ----------------------------- *)

\* LabelList.freeLabel: self.list[self.freeIndex]
freeLabel(l, fi) ==
    IF IsNum(fi) /\ Val(fi) >= 0 /\ Val(fi) < Len(l) THEN l[Val(fi) + 1] ELSE Undefined

\* LabelList.numLabels
numLabels(l) == Len(l)


(* -------------------------------- squares ------------------------------ *)

\* A label given to Square.create: undefined takes the model's default.
LabelOrDefault(label) == IF label = Undefined THEN DefaultLabel ELSE label

\* A Square.create that leaves checked at its default.
NewSquareUnchecked(i, size, label, isFree) ==
    [row |-> i \div size, col |-> i % size, label |-> LabelOrDefault(label),
     free |-> isFree, checked |-> FALSE]

\* Square.create({row, col, label, free, checked}) of models.ts
NewSquare(i, size, label, isFree) ==
    [row |-> i \div size, col |-> i % size, label |-> LabelOrDefault(label),
     free |-> isFree, checked |-> isFree]

\* Square.create({row, column, label}) of the "items" variant: checked and
\* free take their default, false.
NewItemSquare(i, j, label) ==
    [row |-> i, column |-> j, label |-> label, free |-> FALSE, checked |-> FALSE]

\* Square.setCenter(): the label argument is not used.
setCenter(sq) == [sq EXCEPT !.checked = TRUE, !.free = TRUE]

\* A check that also marks the square free, as setCenter does.
checkMarkingFree(sq) == [sq EXCEPT !.checked = ~sq.checked, !.free = TRUE]

\* Square.check()
check(sq) == [sq EXCEPT !.checked = ~sq.checked]

\* sq[dim] == i: a property the square does not have reads as undefined,
\* which equals no number.
PropIs(sq, dim, i) == dim \in DOMAIN sq /\ sq[dim] = i

(* -------------------------------- boards ------------------------------- *)

\* game.board = undefined
NoBoard == [defined |-> FALSE, size |-> 0, squares |-> <<>>]

\* Board.create({})
EmptyBoard == [defined |-> TRUE, size |-> DefaultSize, squares |-> <<>>]

\* arr.splice(pos, 0, x)
Splice(arr, pos, x) ==
    LET p == IF pos < Len(arr) THEN pos ELSE Len(arr)
    IN  SubSeq(arr, 1, p) \o <<x>> \o SubSeq(arr, p + 1, Len(arr))

\* numdecks shuffles of body, each drawing after the one before it.
Decks(body, numdecks, rnd) ==
    FlatMap([k \in 1..numdecks |-> shuffleArray(body, rnd, (k - 1) * ShuffleDraws(body))],
            1, numdecks)

\* A free cell whose centre is taken from size instead of size ** 2.
FreeCellOfSize(size, randomFree, rnd, t) ==
    IF randomFree THEN randInt(Pow2(size), Draw(rnd, t)) ELSE size \div 2

\* The index of the free cell: randInt(size ** 2) on draw t, or the centre.
FreeCell(size, randomFree, rnd, t) ==
    IF randomFree THEN randInt(Pow2(size), Draw(rnd, t)) ELSE Pow2(size) \div 2

\* A body that keeps the free label in the deck.
ExcludeBodyKeepingFree(l, fi) == l

\* The labels dealt over the body cells by the "exclude" buildBoard.
ExcludeBody(l, fi) == FilterOut(l, fi)
ExcludeNumDecks(l, size) == Ceil(Pow2(size) - 1, numLabels(l) - 1)
ExcludeDeck(l, fi, size, rnd) ==
    Slice(Decks(ExcludeBody(l, fi), ExcludeNumDecks(l, size), rnd), Pow2(size) - 1)

\* buildBoard of the "exclude" variant. With a single label the deck count
\* is a division by zero (Infinity, or NaN for size 1) and seq() throws.
buildBoardExclude(l, fi, size, randomFree, rnd) ==
    IF size = 0 \/ Len(l) = 0 THEN [outcome |-> "undefined", board |-> NoBoard, deck |-> <<>>]
    ELSE IF numLabels(l) - 1 = 0
    THEN [outcome |-> "RangeError", board |-> NoBoard, deck |-> <<>>]
    ELSE LET dealt == ExcludeDeck(l, fi, size, rnd)
             t == ExcludeNumDecks(l, size) * ShuffleDraws(ExcludeBody(l, fi))
             free == FreeCell(size, randomFree, rnd, t)
             boardlabels == Splice(dealt, free, freeLabel(l, fi))
         IN  [outcome |-> "built",
              board |-> [defined |-> TRUE, size |-> size,
                         squares |-> [k \in 1..Len(boardlabels) |->
                             NewSquare(k - 1, size, boardlabels[k], k - 1 = free)]],
              deck |-> dealt]

\* The deck of the "replace" buildBoard: one label for every cell.
ReplaceNumDecks(l, size) == Ceil(Pow2(size), Len(l))
ReplaceDeck(l, size, rnd) == Slice(Decks(l, ReplaceNumDecks(l, size), rnd), Pow2(size))

\* buildBoard of the "replace" variant (and of the bundle).
buildBoardReplace(l, fi, size, randomFree, rnd) ==
    IF size = 0 \/ Len(l) = 0 THEN [outcome |-> "undefined", board |-> NoBoard, deck |-> <<>>]
    ELSE LET boardlabels == ReplaceDeck(l, size, rnd)
             t == ReplaceNumDecks(l, size) * ShuffleDraws(l)
             free == FreeCell(size, randomFree, rnd, t)
         IN  [outcome |-> "built",
              board |-> [defined |-> TRUE, size |-> size,
                         squares |-> [k \in 1..Len(boardlabels) |->
                             NewSquare(k - 1, size,
                                 IF k - 1 = free THEN freeLabel(l, fi) ELSE boardlabels[k],
                                 k - 1 = free)]],
              deck |-> boardlabels]

\* Labels.shuffle(size) of the "items" variant: the new items.
LabelsShuffle(l, size, rnd) ==
    IF Len(l) = 0 THEN <<>>
    ELSE Slice(FlatMap([k \in 1..Ceil(size, Len(l)) |-> shuffle(l, rnd, k - 1)],
                       1, Ceil(size, Len(l))), size)

\* `${self.labels.items[k]}`
ItemText(its, k) ==
    IF k < Len(its) /\ its[k + 1] # Undefined THEN its[k + 1] ELSE UndefinedText

\* The squares Board.generate(size) makes, before the centre is marked.
ItemSquares(its, size) ==
    [k \in 1..Pow2(size) |->
        NewItemSquare((k - 1) \div size, (k - 1) % size, ItemText(its, k - 1))]

\* squares.find(s => s.row === ctr && s.column === ctr).setCenter()
MarkCenter(squares, ctr) ==
    [k \in 1..Len(squares) |->
        IF squares[k].row = ctr /\ squares[k].column = ctr
        THEN setCenter(squares[k]) ELSE squares[k]]


(* ----------------------------- win detection --------------------------- *)

\* The names getDim accepts, and the name the columns getter passes to it.
DimNames == IF variant = "exclude" THEN {"row", "col"} ELSE {"row", "column"}
ColumnDim == IF variant = "exclude" THEN "col" ELSE "column"

\* getDim(dim): for each i of seq(size) the squares whose dim is i.
getDim(b, dim) ==
    IF dim \in DimNames
    THEN [i \in 1..b.size |-> SelectSeq(b.squares, LAMBDA sq: PropIs(sq, dim, i - 1))]
    ELSE <<>>

\* Board.rows and Board.columns
rows(b) == getDim(b, "row")
columns(b) == getDim(b, ColumnDim)

\* The column of a square as the diagonals getter reads it (s.col, or
\* s.column in the "items" variant).
ColOf(sq) == IF variant = "items" THEN sq.column ELSE sq.col

\* Board.diagonals: the main diagonal, then the anti-diagonal.
diagonals(b) ==
    << SelectSeq(b.squares, LAMBDA s: s.row = ColOf(s)),
       SelectSeq(b.squares, LAMBDA s: s.row = b.size - ColOf(s) - 1) >>

\* [...rows, ...columns, ...diagonals]
lines(b) == rows(b) \o columns(b) \o diagonals(b)

\* s.every(square => square.checked)
every(line) == \A k \in 1..Len(line) : line[k].checked

\* Board.completed, as a truth value.
completed(b) ==
    /\ Len(b.squares) # 0
    /\ \E n \in 1..Len(lines(b)) : every(lines(b)[n])

(* -------------------------------- actions ------------------------------ *)

\* The sizes a build is asked for, and those with the handlers' 5 (the
\* default of generate(size) in the "items" variant).
Sizes == 0..MaxSize
SizesAndDefault == Sizes \cup {DefaultSize}

\* The random sources that return the same number at every draw.
ConstantStreams == {[t \in 1..RandPeriod |-> k] : k \in 0..(RandDenom - 1)}

\* The squares whose checked flag is not the one they were assembled with.
Flipped(b) == {k \in 1..Len(b.squares) : b.squares[k].checked # b.squares[k].free}

\* The free squares of a board.
FreeSquares(b) == {k \in 1..Len(b.squares) : b.squares[k].free}

\* The number of squares whose flags are not those of assembly: the flipped
\* ones and the free ones beyond the first.
Touched(b) ==
    Cardinality(Flipped(b))
        + (IF FreeSquares(b) = {} THEN 0 ELSE Cardinality(FreeSquares(b)) - 1)

\* The record of an operation other than a generation.
Other == [op |-> "other", size |-> 0, randomFree |-> FALSE, outcome |-> "ok"]

\* The record of a pool operation that returned: its name, its argument and
\* the pool it was called on.
Did(op, arg) ==
    [op |-> op, size |-> 0, randomFree |-> FALSE, outcome |-> "ok",
     arg |-> arg, list |-> list, freeIndex |-> freeIndex]

\* The record of a pool operation that the state-tree library refused: it
\* throws an Error and the pool stays as it was.
Refused(op, arg) == [Did(op, arg) EXCEPT !.outcome = "Error"]

\* The record of generate(size, randomFree) and of how it ended.
Generated(size, randomFree, outcome) ==
    [op |-> "generate", size |-> size, randomFree |-> randomFree, outcome |-> outcome]

\* The pools the page can hand to the app in window.MYLABELS: any labels,
\* a label twice included.
StartPools == UNION {[1..n -> LabelTexts] : n \in 0..MaxLabels}

\* The app of src/ts/index.ts:1-39 starts from the pool of the page, the
\* bundle and the single-file program from an empty pool.
Init ==
    /\ variant \in Variants
    /\ list \in IF variant = "exclude" THEN StartPools ELSE {<<>>}
    /\ freeIndex = IF variant = "exclude" THEN Num(0) ELSE Null
    /\ items = <<>>
    /\ board = EmptyBoard
    /\ mode = IF variant = "exclude" THEN "config" ELSE "none"
    /\ active = FALSE
    /\ deck = <<>>
    /\ last = Other

\* LabelList.add(text) / Labels.add(text)
Add(text) ==
    /\ Len(list) < MaxLabels
    /\ list' = Append(list, text)
    /\ last' = Did("add", text)
    /\ UNCHANGED <<variant, freeIndex, items, board, mode, active, deck>>

\* list.pop()
Pop(l) == IF l = <<>> THEN l ELSE SubSeq(l, 1, Len(l) - 1)

\* LabelList.delete(idx): the first copy tests idx !== null, the second the
\* truthiness of idx, so that 0 pops the last label.
DeleteAt(l, idx) ==
    IF variant = "exclude"
    THEN IF idx # Null THEN FilterOut(l, idx) ELSE Pop(l)
    ELSE IF idx # Null /\ Val(idx) # 0 THEN FilterOut(l, idx) ELSE Pop(l)

Delete(idx) ==
    /\ variant \in {"exclude", "replace"}
    /\ list' = DeleteAt(list, idx)
    /\ last' = Did("delete", idx)
    /\ UNCHANGED <<variant, freeIndex, items, board, mode, active, deck>>

\* list.remove(text): the first entry equal to text goes, if there is one.
RECURSIVE Remove(_, _)
Remove(l, text) ==
    IF l = <<>> THEN l
    ELSE IF Head(l) = text THEN Tail(l) ELSE <<Head(l)>> \o Remove(Tail(l), text)

\* Labels.delete(text) of the "items" variant: '' pops the last label.
DeleteText(text) ==
    /\ variant = "items"
    /\ list' = IF text # "" THEN Remove(list, text) ELSE Pop(list)
    /\ last' = Did("deleteText", text)
    /\ UNCHANGED <<variant, freeIndex, items, board, mode, active, deck>>

\* LabelList.setFreeIndex(idx): the first copy falls back to 0 for an idx
\* at or beyond the length (null compares as 0), the second stores idx as
\* given.
NewFreeIndex(l, idx) ==
    IF variant = "exclude"
    THEN IF idx = Null
         THEN IF 0 < Len(l) THEN Null ELSE Num(0)
         ELSE IF Val(idx) < Len(l) THEN idx ELSE Num(0)
    ELSE idx

\* In the first copy freeIndex is a number: a null is refused by a build
\* that checks types, and reads as the default 0 in one that does not.
SetFreeIndex(idx, typecheck) ==
    /\ variant \in {"exclude", "replace"}
    /\ LET value == NewFreeIndex(list, idx)
       IN  IF variant = "exclude" /\ value = Null
           THEN IF typecheck
                THEN /\ freeIndex' = freeIndex
                     /\ last' = Refused("setFreeIndex", idx)
                ELSE /\ freeIndex' = Num(0)
                     /\ last' = Did("setFreeIndex", idx)
           ELSE /\ freeIndex' = value
                /\ last' = Did("setFreeIndex", idx)
    /\ UNCHANGED <<variant, list, items, board, mode, active, deck>>

\* A click handler without the test of the pool, as the bundle's.
GenerateExcludeUnguarded(size, randomFree, rnd) ==
    /\ variant = "exclude"
    /\ LET built == buildBoardExclude(list, freeIndex, size, randomFree, rnd)
       IN  /\ last' = Generated(size, randomFree, built.outcome)
           /\ IF built.outcome = "RangeError"
              THEN UNCHANGED <<board, mode, deck>>
              ELSE /\ board' = built.board
                   /\ mode' = "play"
                   /\ deck' = built.deck
    /\ UNCHANGED <<variant, list, freeIndex, items, active>>

\* The click handler of the "exclude" app: a build, guarded by a non-empty pool.
GenerateExclude(size, randomFree, rnd) ==
    /\ variant = "exclude"
    /\ IF Len(list) = 0
       THEN /\ last' = Generated(size, randomFree, "skipped")
            /\ UNCHANGED <<board, mode, deck>>
       ELSE LET built == buildBoardExclude(list, freeIndex, size, randomFree, rnd)
            IN  /\ last' = Generated(size, randomFree, built.outcome)
                /\ IF built.outcome = "RangeError"
                   THEN UNCHANGED <<board, mode, deck>>
                   ELSE /\ board' = built.board
                        /\ mode' = "play"
                        /\ deck' = built.deck
    /\ UNCHANGED <<variant, list, freeIndex, items, active>>

\* The click handler of the bundle: game.board = buildBoard(labels, size).
GenerateReplace(size, randomFree, rnd) ==
    /\ variant = "replace"
    /\ LET built == buildBoardReplace(list, freeIndex, size, randomFree, rnd)
       IN  /\ last' = Generated(size, randomFree, built.outcome)
           /\ board' = built.board
           /\ deck' = built.deck
    /\ UNCHANGED <<variant, list, freeIndex, items, mode, active>>

\* Board.generate(size) of the "items" variant. typecheck tells whether the
\* state-tree library checks types (a development build) or not.
GenerateItems(size, rnd, typecheck) ==
    /\ variant = "items"
    /\ IF Len(list) = 0
       THEN /\ last' = Generated(size, FALSE, "skipped")
            /\ UNCHANGED <<items, board, active, deck>>
       ELSE LET dealt == LabelsShuffle(list, Pow2(board.size), rnd)
                squares == ItemSquares(dealt, size)
                ctr == size \div 2
            IN  IF typecheck /\ \E k \in 1..Len(dealt) : dealt[k] = Undefined
                THEN \* items.push(undefined) is refused by the state-tree
                     \* library (a plain Error) after items.clear()
                     /\ last' = Generated(size, FALSE, "Error")
                     /\ items' = <<>>
                     /\ UNCHANGED <<board, active, deck>>
                ELSE IF \A k \in 1..Len(squares) :
                            ~(squares[k].row = ctr /\ squares[k].column = ctr)
                THEN \* find() returns undefined and .setCenter() throws
                     /\ last' = Generated(size, FALSE, "TypeError")
                     /\ items' = dealt
                     /\ deck' = dealt
                     /\ UNCHANGED <<board, active>>
                ELSE /\ last' = Generated(size, FALSE, "built")
                     /\ items' = dealt
                     /\ deck' = dealt
                     /\ board' = [board EXCEPT !.squares = MarkCenter(squares, ctr)]
                     /\ active' = TRUE
    /\ UNCHANGED <<variant, list, freeIndex, mode>>

\* The board after a click on its square number i (from 1): Square.check().
Toggle(b, i) == [b EXCEPT !.squares[i] = check(b.squares[i])]

\* A click on square number i of the active board.
Check(i) ==
    /\ board.defined
    /\ i \in 1..Len(board.squares)
    /\ Touched(Toggle(board, i)) <= MaxFlipped
    /\ board' = Toggle(board, i)
    /\ last' = Other
    /\ UNCHANGED <<variant, list, freeIndex, items, mode, active, deck>>

\* Labels.shuffle(size) of the "items" variant called on its own: items is
\* cleared and, from a non-empty pool, dealt anew.
ShuffleItems(size, rnd, typecheck) ==
    /\ variant = "items"
    /\ LET dealt == LabelsShuffle(list, size, rnd)
       IN  IF typecheck /\ \E k \in 1..Len(dealt) : dealt[k] = Undefined
           THEN \* items.push(undefined) throws after items.clear()
                /\ items' = <<>>
                /\ last' = Refused("labelsShuffle", size)
           ELSE /\ items' = dealt
                /\ last' = Did("labelsShuffle", size)
    /\ UNCHANGED <<variant, list, freeIndex, board, mode, active, deck>>

\* Square.setCenter() of the "items" variant called on square number i
\* (from 1) of the board.
SetCenter(i) ==
    /\ variant = "items"
    /\ board.defined
    /\ i \in 1..Len(board.squares)
    /\ Touched([board EXCEPT !.squares[i] = setCenter(board.squares[i])]) <= MaxFlipped
    /\ board' = [board EXCEPT !.squares[i] = setCenter(board.squares[i])]
    /\ last' = Other
    /\ UNCHANGED <<variant, list, freeIndex, items, mode, active, deck>>

\* The board object that was active before a step, as it is after the step:
\* buildBoard makes a new object with Board.create and leaves the old one
\* alone, Board.generate of the "items" variant assigns the squares of the
\* one board it is called on.
PriorBoardAfter == IF variant = "items" THEN board' ELSE board

Indexes == {Null} \cup {Num(i) : i \in 0..MaxLabels}

Next ==
    \/ \E text \in AddTexts : Add(text)
    \/ \E idx \in Indexes : Delete(idx)
    \/ \E text \in AddTexts \cup {""} : DeleteText(text)
    \/ \E idx \in Indexes, typecheck \in BOOLEAN : SetFreeIndex(idx, typecheck)
    \/ \E size \in Sizes, randomFree \in BOOLEAN, rnd \in ConstantStreams :
           GenerateExclude(size, randomFree, rnd)
    \/ \E size \in Sizes, randomFree \in BOOLEAN, rnd \in ConstantStreams :
           GenerateReplace(size, randomFree, rnd)
    \/ \E size \in SizesAndDefault, rnd \in ConstantStreams, typecheck \in BOOLEAN :
           GenerateItems(size, rnd, typecheck)
    \/ \E i \in 1..(Pow2(MaxSize) + Pow2(DefaultSize)) : Check(i)
    \/ \E i \in 1..(Pow2(MaxSize) + Pow2(DefaultSize)) : SetCenter(i)

Spec == Init /\ [][Next]_vars

(* ------------------------- the app with a game mode -------------------- *)

\* The app of src/ts/index.ts:1-39: label edits, clicks on #generate, which
\* asks for buildBoard(labels, 5) with the centre policy, and clicks on the
\* squares of the board.
InitApp == Init /\ variant = "exclude"

NextApp ==
    \/ \E text \in AddTexts : Add(text)
    \/ \E idx \in Indexes : Delete(idx)
    \/ \E idx \in Indexes, typecheck \in BOOLEAN : SetFreeIndex(idx, typecheck)
    \/ \E rnd \in ConstantStreams : GenerateExclude(DefaultSize, FALSE, rnd)
    \/ \E i \in 1..Pow2(DefaultSize) : Check(i)

SpecApp == InitApp /\ [][NextApp]_vars

(* ------------------------ the label pool on its own -------------------- *)

\* The texts typed into the pool editor: two labels, the empty text and a
\* blank.
PoolTexts == {"A", "B", "", " "}

\* The indexes the pool operations are called with: none, every position
\* up to one past the longest pool, and a negative one.
PoolIndexes == Indexes \cup {Num(-1)}

NextPool ==
    \/ \E text \in PoolTexts : Add(text)
    \/ \E idx \in PoolIndexes : Delete(idx)
    \/ \E text \in PoolTexts : DeleteText(text)
    \/ \E idx \in PoolIndexes, typecheck \in BOOLEAN : SetFreeIndex(idx, typecheck)
    \/ \E size \in Sizes \cup {Len(list)}, rnd \in ConstantStreams, typecheck \in BOOLEAN :
           ShuffleItems(size, rnd, typecheck)

SpecPool == Init /\ [][NextPool]_vars

(* ------------------- a build as a function of its inputs --------------- *)

\* The pools of up to MaxPool labels, a label twice included.
Pools == UNION {[1..n -> LabelTexts] : n \in 0..MaxPool}

\* The values freeIndex can have beside a pool: unset or any number from -1
\* to MaxPool ("replace"), such a number ("exclude"), always unset ("items").
FreeIndexes ==
    IF variant = "items" THEN {Null}
    ELSE {Num(i) : i \in (-1)..MaxPool} \cup (IF variant = "replace" THEN {Null} ELSE {})

InitBuild ==
    /\ variant \in Variants
    /\ list \in Pools
    /\ freeIndex \in FreeIndexes
    /\ items = <<>>
    /\ board = EmptyBoard
    /\ mode = IF variant = "exclude" THEN "config" ELSE "none"
    /\ active = FALSE
    /\ deck = <<>>
    /\ last = Other

\* The first generation on the pool drawn.
FirstBuild ==
    /\ board = EmptyBoard
    /\ last = Other
    /\ \E size \in SizesAndDefault, randomFree \in BOOLEAN, rnd \in Streams :
           \/ GenerateExclude(size, randomFree, rnd)
           \/ GenerateReplace(size, randomFree, rnd)
           \/ \E typecheck \in BOOLEAN : GenerateItems(size, rnd, typecheck)

NextBuild == FirstBuild

SpecBuild == InitBuild /\ [][NextBuild]_vars


(* --------------------- the shuffle helper on its own ------------------- *)

\* The shuffle helper of the running variant applied to arr: shuffleArray
\* of models.ts, shuffle of the single-file program (whose undefined result
\* shows as <<Undefined>>).
ShuffleHelper(arr, rnd) ==
    IF variant = "items" THEN shuffle(arr, rnd, 0) ELSE shuffleArray(arr, rnd, 0)

\* One call of the helper on the label list, with the random source rnd;
\* the result is kept in deck. The helper works on a copy of its input.
ShuffleCall(rnd) ==
    /\ deck' = ShuffleHelper(list, rnd)
    /\ last' = Did("shuffle", rnd)
    /\ UNCHANGED <<variant, list, freeIndex, items, board, mode, active>>

NextShuffle == \E rnd \in Streams : ShuffleCall(rnd)

SpecShuffle == InitBuild /\ [][NextShuffle]_vars

(* -------------------------------- claims ------------------------------- *)

\* The lines of a board by the coordinates of its squares, as sets of
\* positions in squares: row r, column c and the two diagonals.
RowLine(b, r) == {k \in 1..Len(b.squares) : b.squares[k].row = r}
ColLine(b, c) == {k \in 1..Len(b.squares) : ColOf(b.squares[k]) = c}
MainDiagonal(b) == {k \in 1..Len(b.squares) : b.squares[k].row = ColOf(b.squares[k])}
AntiDiagonal(b) ==
    {k \in 1..Len(b.squares) : b.squares[k].row = b.size - ColOf(b.squares[k]) - 1}
BoardLines(b) ==
    {RowLine(b, r) : r \in 0..(b.size - 1)} \cup {ColLine(b, c) : c \in 0..(b.size - 1)}
        \cup {MainDiagonal(b), AntiDiagonal(b)}

\* The checked squares, and the lines all of whose squares are checked.
Checked(b) == {k \in 1..Len(b.squares) : b.squares[k].checked}
FullyChecked(b) == {L \in BoardLines(b) : L \subseteq Checked(b)}

\* C1: completed is true exactly when the board has a square and one of its
\* lines (a row, a column or a diagonal) has every square checked.
C1_CompletedIffLineChecked ==
    board.defined =>
        (completed(board) <=> (Len(board.squares) > 0 /\ FullyChecked(board) # {}))

\* C2: the lines derived from a board built by buildBoard are size rows,
\* size columns and 2 diagonals, 2 * size + 2 in all, of size squares each.
C2_LinesOfBuiltBoard ==
    (last.outcome = "built" /\ variant # "items") =>
        /\ Len(rows(board)) = board.size
        /\ Len(columns(board)) = board.size
        /\ Len(diagonals(board)) = 2
        /\ Len(lines(board)) = 2 * board.size + 2
        /\ \A n \in 1..Len(lines(board)) : Len(lines(board)[n]) = board.size

\* C3: a generation with size >= 1 on a non-empty pool returns a board of
\* size * size squares.
C3_SquaresCount ==
    (last.op = "generate" /\ last.size >= 1 /\ Len(list) > 0) =>
        /\ last.outcome = "built"
        /\ board.defined
        /\ Len(board.squares) = Pow2(last.size)

\* C4: right after assembly exactly one square is free, it is checked, and
\* every other square is neither free nor checked.
C4_OneFreeSquare ==
    last.outcome = "built" =>
        \E f \in 1..Len(board.squares) :
            /\ board.squares[f].free /\ board.squares[f].checked
            /\ \A k \in 1..Len(board.squares) :
                   k # f => ~board.squares[k].free /\ ~board.squares[k].checked

\* A board assembled with the random policy whose free square is off centre.
C4_Witness ==
    /\ last.outcome = "built" /\ last.randomFree
    /\ \E f \in 1..Len(board.squares) :
           board.squares[f].free /\ f - 1 # Pow2(last.size) \div 2

\* C5: the free square of the active board is checked in every state.
C5_FreeSquareStaysChecked ==
    board.defined =>
        \A k \in 1..Len(board.squares) : board.squares[k].free => board.squares[k].checked

\* C6: when exactly one line of a completed board is fully checked, a click
\* on a non-free square of it ends the completion and a second click
\* restores it.
C6_CompletionNotLatched ==
    board.defined =>
        \A L \in BoardLines(board) : \A k \in L :
            (completed(board) /\ FullyChecked(board) = {L} /\ ~board.squares[k].free) =>
                /\ ~completed(Toggle(board, k))
                /\ completed(Toggle(Toggle(board, k), k))

\* C7: a board of size >= 2 whose checked squares are exactly row 0 is
\* completed, and is not once any square of row 0 is unchecked.
C7_RowZero ==
    (/\ board.defined /\ board.size >= 2
     /\ Len(board.squares) = Pow2(board.size)
     /\ Checked(board) = RowLine(board, 0)) =>
        /\ completed(board)
        /\ \A k \in RowLine(board, 0) : ~completed(Toggle(board, k))

\* C8: a board whose checked squares are exactly one diagonal is completed,
\* and is not once any square of that diagonal is unchecked.
C8_Diagonals ==
    (/\ board.defined /\ Len(board.squares) > 0
     /\ Len(board.squares) = Pow2(board.size)
     /\ Checked(board) \in {MainDiagonal(board), AntiDiagonal(board)}) =>
        /\ completed(board)
        /\ \A k \in Checked(board) : ~completed(Toggle(board, k))

\* The labels a generation deals from: the pool, without the free label in
\* the "exclude" variant.
BodyLabels == IF variant = "exclude" THEN ExcludeBody(list, freeIndex) ELSE list

Occurrences(x, s) == Cardinality({k \in 1..Len(s) : s[k] = x})
IsPermutation(s, t) ==
    /\ Len(s) = Len(t)
    /\ \A k \in 1..Len(s) : Occurrences(s[k], s) = Occurrences(s[k], t)

\* The slice of BodyLabels' length that starts at offset o of the deck.
DeckSlice(o) == SubSeq(deck, o + 1, o + Len(BodyLabels))
Offsets == {o \in 0..Len(deck) : o + Len(BodyLabels) <= Len(deck)}

\* C9: in the deck dealt by a board generation, every slice of
\* bodyLabels.length entries, at every start offset, is a permutation of
\* bodyLabels: no label is invented, dropped or repeated inside the slice.
C9_EverySliceIsPermutation ==
    last.outcome = "built" =>
        \A o \in Offsets : IsPermutation(DeckSlice(o), BodyLabels)

\* The scenario of C10: buildBoard on the pool A, B, C with a designated
\* free label, size 5, centre policy.
Scenario ==
    /\ last.outcome = "built" /\ variant # "items"
    /\ list = <<"A", "B", "C">>
    /\ freeLabel(list, freeIndex) # Undefined
    /\ last.size = 5 /\ ~last.randomFree

LabelCount(b, x) == Cardinality({k \in 1..Len(b.squares) : b.squares[k].label = x})

\* The free, checked square with the free label sits at index 12 (row 2,
\* col 2) and the other 24 squares carry A, B or C.
ScenarioLayout ==
    /\ Len(board.squares) = 25
    /\ board.squares[13].free /\ board.squares[13].checked
    /\ board.squares[13].row = 2 /\ board.squares[13].col = 2
    /\ board.squares[13].label = freeLabel(list, freeIndex)
    /\ \A k \in 1..25 : k # 13 =>
           /\ board.squares[k].label \in {"A", "B", "C"}
           /\ ~board.squares[k].free

\* C10 as stated: in the scenario each of A, B and C is on at least 8 squares.
C10_EachLabelEightTimes ==
    Scenario =>
        /\ ScenarioLayout
        /\ \A x \in {"A", "B", "C"} : LabelCount(board, x) >= 8

\* C10 amended: each label other than the free label is on at least 7
\* squares.
C10_OtherLabelsSevenTimes ==
    Scenario =>
        /\ ScenarioLayout
        /\ \A x \in {"A", "B", "C"} \ {freeLabel(list, freeIndex)} :
               LabelCount(board, x) >= 7

\* The scenario with a label other than the free label on exactly 7 squares.
C10_Witness ==
    /\ Scenario
    /\ \E x \in {"A", "B", "C"} \ {freeLabel(list, freeIndex)} : LabelCount(board, x) = 7

\* The list l without its entry at the 0-based position i.
Without(l, i) == [k \in 1..(Len(l) - 1) |-> IF k <= i THEN l[k] ELSE l[k + 1]]

\* An index is a number inside [0, length) of the list l.
InRange(idx, l) == IsNum(idx) /\ Val(idx) >= 0 /\ Val(idx) < Len(l)
OutOfRange(idx, l) == IsNum(idx) /\ (Val(idx) < 0 \/ Val(idx) >= Len(l))

\* C11: delete(i) with 0 <= i < length removes exactly the label at
\* position i: the others stay in order and the length drops by one.
C11_DeleteRemovesAt ==
    (last.op = "delete" /\ InRange(last.arg, last.list)) =>
        /\ list = Without(last.list, Val(last.arg))
        /\ Len(list) = Len(last.list) - 1

\* C12: delete and setFreeIndex called with an index outside [0, length)
\* end in an OutOfRange error and leave list and freeIndex as they were.
C12_OutOfRangeRejected ==
    (last.op \in {"delete", "setFreeIndex"} /\ OutOfRange(last.arg, last.list)) =>
        /\ last.outcome = "OutOfRange"
        /\ list = last.list
        /\ freeIndex = last.freeIndex

\* C13: once the label freeIndex pointed to has been removed, freeIndex is
\* unset.
C13_RemovingFreeLabelUnsets ==
    (/\ last.op = "delete"
     /\ InRange(last.freeIndex, last.list)
     /\ last.arg = last.freeIndex
     /\ Len(list) < Len(last.list)) =>
        freeIndex = Null

\* C14: in every state of a pool reachable from its creation, freeIndex is
\* unset or an index inside [0, list.length).
C14_FreeIndexValid ==
    freeIndex = Null \/ InRange(freeIndex, list)

\* The empty text and the texts made of blanks only.
BlankTexts == {"", " "}

\* C15: add of an empty or blank text is rejected with a validation error
\* and leaves the list unchanged, add of another text appends it, and no
\* pool holds an empty label.
C15_AddRejectsBlank ==
    /\ (last.op = "add" /\ last.arg \in BlankTexts) =>
           last.outcome = "ValidationError" /\ list = last.list
    /\ (last.op = "add" /\ last.arg \notin BlankTexts) =>
           list = Append(last.list, last.arg)
    /\ \A k \in 1..Len(list) : list[k] \notin BlankTexts

\* C16: a generation asked for on a pool of zero labels ends in an
\* EmptyPool error, never in an undefined board.
C16_EmptyPoolError ==
    (last.op = "generate" /\ Len(list) = 0) =>
        last.outcome = "EmptyPool" /\ board.defined

\* C17: a generation on a pool whose only label is the designated free
\* label ends in an InsufficientLabels error, not in another failure and
\* not in a board.
C17_InsufficientLabelsError ==
    (/\ last.op = "generate" /\ last.size >= 1
     /\ Len(list) = 1 /\ InRange(freeIndex, list)) =>
        last.outcome = "InsufficientLabels"

\* C18: a generation changes neither the pool's list and freeIndex nor the
\* squares of a board built before it.
C18_BuildChangesOnlyResult ==
    [][last'.op = "generate" =>
          /\ list' = list
          /\ freeIndex' = freeIndex
          /\ (board.defined /\ board.squares # <<>>) =>
                 PriorBoardAfter.squares = board.squares]_vars

\* C19: with the centre policy and size >= 1 the free square is the one at
\* index floor(size * size / 2), and it carries the pool's designated free
\* label.
C19_CenterFreeCell ==
    (last.outcome = "built" /\ ~last.randomFree /\ last.size >= 1) =>
        LET f == (Pow2(last.size) \div 2) + 1
        IN  /\ f <= Len(board.squares)
            /\ board.squares[f].free
            /\ \A k \in 1..Len(board.squares) : board.squares[k].free => k = f
            /\ InRange(freeIndex, list) =>
                   board.squares[f].label = list[Val(freeIndex) + 1]

\* C20: a generation asked for with a size <= 0 fails with a precondition
\* violation, and no board has a size <= 0.
C20_NonPositiveSizeRejected ==
    /\ (last.op = "generate" /\ last.size <= 0) =>
           last.outcome = "PreconditionViolation"
    /\ board.defined => board.size > 0

\* The labels of the squares of b that are not free, in grid-index order.
NonFreeLabels(b) ==
    LET nonFree == SelectSeq(b.squares, LAMBDA sq : ~sq.free)
    IN  [k \in 1..Len(nonFree) |-> nonFree[k].label]

\* C21: the labels of the non-free squares of a board built by buildBoard,
\* in grid order, are the first size * size - 1 entries of the dealt deck.
C21_NonFreeLabelsAreDeck ==
    (last.outcome = "built" /\ variant # "items") =>
        NonFreeLabels(board) = Slice(deck, Pow2(board.size) - 1)

\* C22: every board has size * size squares, the board created before the
\* first generation and a board generated with another size included.
C22_SquaresFillBoard ==
    board.defined => Len(board.squares) = Pow2(board.size)

\* C23: the squares of an assembled board are laid out row-major: the
\* square at position i has row floor(i / size) and col i mod size, and
\* every pair (row, col) below size occurs exactly once.
C23_RowMajor ==
    last.outcome = "built" =>
        /\ \A k \in 1..Len(board.squares) :
               /\ board.squares[k].row = (k - 1) \div board.size
               /\ ColOf(board.squares[k]) = (k - 1) % board.size
        /\ \A r, c \in 0..(board.size - 1) :
               Cardinality({k \in 1..Len(board.squares) :
                   board.squares[k].row = r /\ ColOf(board.squares[k]) = c}) = 1

\* The board after a step differs from the board before it in the checked
\* flag of square number i only, which is flipped.
OnlyFlipped(i) ==
    /\ board'.defined = board.defined
    /\ board'.size = board.size
    /\ Len(board'.squares) = Len(board.squares)
    /\ \A k \in 1..Len(board.squares) :
           /\ [board'.squares[k] EXCEPT !.checked = board.squares[k].checked]
                  = board.squares[k]
           /\ k # i => board'.squares[k].checked = board.squares[k].checked
    /\ board'.squares[i].checked = ~board.squares[i].checked

\* C24: a click on a non-free square flips the checked flag of that square
\* and changes nothing else of the board: not its size, not the number of
\* squares, no row, col, label or free flag, no other checked flag.
C24_ToggleFlipsOne ==
    [][\A i \in 1..Len(board.squares) :
           (Check(i) /\ ~board.squares[i].free) => OnlyFlipped(i)]_vars

\* A board one of whose non-free squares has been clicked.
C24_Witness ==
    /\ board.defined
    /\ \E k \in 1..Len(board.squares) :
           ~board.squares[k].free /\ board.squares[k].checked

\* The rearrangements of the list l.
Rearrangements(l) ==
    {p \in [1..Len(l) -> {l[k] : k \in 1..Len(l)}] : IsPermutation(p, l)}

\* C25: the shuffle helper returns a permutation of its input, also for an
\* input of length 0 or 1, leaves the input as it was, and can return every
\* permutation of the input for some sequence of random draws.
C25_ShuffleIsPermutation ==
    last.op = "shuffle" =>
        /\ IsPermutation(deck, last.list)
        /\ list = last.list
        /\ \A p \in Rearrangements(list) :
               \E rnd \in Streams : ShuffleHelper(list, rnd) = p

\* C26: a generation asked for while the pool is empty leaves the game as
\* it was: the same active board with the same squares and checked flags,
\* the same mode and the same active flag.
C26_EmptyPoolGenerateChangesNothing ==
    [][(last'.op = "generate" /\ Len(list) = 0) =>
          /\ board' = board
          /\ mode' = mode
          /\ active' = active]_vars

\* C27: the game mode starts as 'config'; it changes only from 'config' to
\* 'play' and only on a generate click made with a non-empty pool; and
\* while it is 'play' the active board is defined with size * size squares.
C27_ModeOnlyForward ==
    /\ mode = "config"
    /\ [][mode' # mode =>
             /\ mode = "config" /\ mode' = "play"
             /\ last'.op = "generate" /\ Len(list) > 0]_vars
    /\ [](mode = "play" =>
             board.defined /\ Len(board.squares) = Pow2(board.size))

\* The app in 'play' mode after a generate click on a pool emptied since
\* the board was built.
C27_Witness ==
    /\ mode = "play"
    /\ Len(list) = 0
    /\ last.op = "generate" /\ last.outcome = "skipped"
    /\ board.defined /\ Len(board.squares) = Pow2(DefaultSize)

\* C28: right after a successful generation with size >= 2 the free square
\* is the only checked square and the board is not completed, whatever the
\* board before it was.
C28_FreshBoardNotCompleted ==
    (last.outcome = "built" /\ last.size >= 2) =>
        /\ Checked(board) = {k \in 1..Len(board.squares) : board.squares[k].free}
        /\ Cardinality(Checked(board)) = 1
        /\ ~completed(board)

\* The labels of the list l are pairwise distinct.
Distinct(l) == \A i, j \in 1..Len(l) : l[i] = l[j] => i = j

\* C29: in the variant that leaves the free label out of the deck, for a
\* pool of two or more distinct labels with a valid freeIndex, the label at
\* freeIndex is on the free square and on no other, and every other square
\* carries one of the other labels of the pool.
C29_FreeLabelOnFreeSquareOnly ==
    (/\ variant = "exclude" /\ last.outcome = "built"
     /\ Len(list) >= 2 /\ Distinct(list) /\ InRange(freeIndex, list)) =>
        \A k \in 1..Len(board.squares) :
            IF board.squares[k].free
            THEN board.squares[k].label = list[Val(freeIndex) + 1]
            ELSE /\ board.squares[k].label # list[Val(freeIndex) + 1]
                 /\ \E n \in 1..Len(list) :
                        n # Val(freeIndex) + 1 /\ board.squares[k].label = list[n]

\* A size-5 board of the excluding variant built from three labels, the
\* free one not the first, with both other labels on its squares.
C29_Witness ==
    /\ variant = "exclude" /\ last.outcome = "built" /\ last.size = DefaultSize
    /\ Len(list) = 3 /\ Distinct(list) /\ InRange(freeIndex, list) /\ Val(freeIndex) > 0
    /\ \A n \in 1..Len(list) : LabelCount(board, list[n]) >= 1
    /\ LabelCount(board, list[Val(freeIndex) + 1]) = 1

\* C30: on a non-empty pool, setFreeIndex(idx) with any integer idx leaves
\* a valid freeIndex: idx itself when it is inside [0, list.length), 0
\* otherwise; and it never changes the label list.
C30_SetFreeIndexValid ==
    (last.op = "setFreeIndex" /\ IsNum(last.arg) /\ Len(last.list) > 0) =>
        /\ InRange(freeIndex, list)
        /\ freeIndex = IF InRange(last.arg, last.list) THEN last.arg ELSE Num(0)
        /\ list = last.list

====
